---- MODULE Spec2Model ----
(***************************************************************************)
(* Navigation bookkeeping of a puppeteer Frame and the navigation driver   *)
(* (Frame.goto / Frame.waitForNavigation) of                               *)
(* packages/puppeteer-core/src/common/Frame.ts.                            *)
(*                                                                         *)
(* One frame is modelled, with one navigation call in flight at a time: a  *)
(* goto call (record g) or a waitForNavigation call (record w); the two    *)
(* functions share no state but the frame, which they only read.  Protocol *)
(* events and timers are macrotasks; the segments of the async functions   *)
(* between two awaits are microtasks, which the event loop drains before   *)
(* it takes the next macrotask (MicrotaskPending).                         *)
(*                                                                         *)
(* LifecycleWatcher.ts, FrameManager.ts and IsolatedWorld.ts are not part  *)
(* of the source under study; the watcher, the routing of events and the   *)
(* worlds are modelled from sections 4.3 to 4.5 of the specification.      *)
(*                                                                         *)
(* Spec is the navigation driver.  FrameSpec is the bookkeeping of the     *)
(* frame under every event the frame manager routes to it.  WorldSpec is   *)
(* the two worlds of the frame with callers of executionContext().         *)
(* TagSpec is addScriptTag / addStyleTag.                                  *)
(***************************************************************************)
EXTENDS Integers, FiniteSets, Sequences, TLC

VARIABLES frame, g, w, last, calls, callers, tag

vars == <<frame, g, w, last, calls, callers, tag>>

----------------------------------------------------------------------------
(* Bounds of the model *)

\* number of goto / waitForNavigation calls started in one behaviour
MaxCalls == 1

\* the ambient default navigation timeout, in ticks
DefaultNavigationTimeout == 2

\* ticks of the clock a watcher counts; later ticks change nothing
MaxElapsed == DefaultNavigationTimeout + 1

----------------------------------------------------------------------------
(* Domains of the inputs *)

Loaders == {"L1", "L2"}

Milestones == {"DOMContentLoaded", "load"}

LifecycleNames == {"init"} \cup Milestones

Urls == {"u#h"}

\* frame-navigated: the url, the fragment and the name of the payload
NavigatedUrls == {"u"}

UrlFragments == {"", "#h"}

\* _name before the first frame-navigated event, and a payload without name
NoName == "<undefined>"

FrameNames == {NoName, "", "n"}

\* _id
FrameId == "F"

\* the sessions a frame can be bound to
Sessions == {"top", "oop"}

\* frameManager.client, the top-level session
FrameManagerClient == "top"

WorldKinds == {"MAIN_WORLD", "PUPPETEER_WORLD"}

\* options.timeout left out by the caller
Undefined == -1

\* options.timeout: Undefined, 0 (no timeout) or one tick
TimeoutOptions == {Undefined, 0, 1}

\* options.waitUntil: left out, or ['load', 'domcontentloaded']
WaitUntilOptions == {"undefined", "load+domcontentloaded"}

HTTP_RESPONSE_CODE_FAILURE == "net::ERR_HTTP_RESPONSE_CODE_FAILURE"

ErrorTexts == {"", HTTP_RESPONSE_CODE_FAILURE, "net::ERR_ABORTED"}

----------------------------------------------------------------------------
(* Frame: navigation bookkeeping *)

\* new IsolatedWorld(frame): no live context, not detached
NewWorld == [context |-> FALSE, detached |-> FALSE]

\* world.setContext(context)
setContext(wd) == [wd EXCEPT !.context = TRUE]

\* world.clearContext()
clearContext(wd) == [wd EXCEPT !.context = FALSE]

\* world._detach(): the live context is cleared for good
WorldDetach(wd) == [wd EXCEPT !.context = FALSE, !.detached = TRUE]

\* mutant: the worlds are replaced, the session is kept
updateClientKeepsSession(f, client) ==
    [f EXCEPT !.worlds = [k \in WorldKinds |-> NewWorld]]

updateClient(f, client) ==
    [f EXCEPT !.client = client,
              !.worlds = [k \in WorldKinds |-> NewWorld]]

\* new Frame(frameManager, frameId, parentFrameId, client)
FrameConstructor(client) ==
    updateClient([url |-> "", loaderId |-> "", lifecycleEvents |-> {},
                  detached |-> FALSE, name |-> NoName,
                  hasStartedLoading |-> FALSE, client |-> client,
                  worlds |-> [k \in WorldKinds |-> NewWorld]],
                 client)

\* the frame of the navigation driver, served by the top-level session
NewFrame == FrameConstructor(FrameManagerClient)

isOOPFrame(f) == f.client # FrameManagerClient

\* name(): this._name || ''
Frame_name(f) == IF f.name = NoName \/ f.name = "" THEN "" ELSE f.name

isDetached(f) == f.detached

\* mutant: the fragment of the payload is dropped
_navigatedDropsFragment(f, payloadUrl, urlFragment, payloadName) ==
    [f EXCEPT !.name = payloadName, !.url = payloadUrl]

\* mutant: the name of the payload is not taken over
_navigatedKeepsName(f, payloadUrl, urlFragment, payloadName) ==
    [f EXCEPT !.url = payloadUrl \o urlFragment]

_navigated(f, payloadUrl, urlFragment, payloadName) ==
    [f EXCEPT !.name = payloadName, !.url = payloadUrl \o urlFragment]

_navigatedWithinDocument(f, u) == [f EXCEPT !.url = u]

\* mutant: init is not recorded in the set
_onLifecycleEventInitNotAdded(f, loaderId, name) ==
    IF name = "init"
    THEN [f EXCEPT !.loaderId = loaderId, !.lifecycleEvents = {}]
    ELSE [f EXCEPT !.lifecycleEvents = @ \cup {name}]

\* mutant: an event of another loader than the current one is not recorded
_onLifecycleEventCurrentLoaderOnly(f, loaderId, name) ==
    LET f1 == IF name = "init"
              THEN [f EXCEPT !.loaderId = loaderId, !.lifecycleEvents = {}]
              ELSE f
    IN  IF loaderId = f1.loaderId
        THEN [f1 EXCEPT !.lifecycleEvents = @ \cup {name}]
        ELSE f1

\* mutant: the set is cleared only when the init names another loader
_onLifecycleEventClearsOnNewLoader(f, loaderId, name) ==
    LET f1 == IF name = "init"
              THEN [f EXCEPT !.loaderId = loaderId,
                             !.lifecycleEvents =
                                 IF loaderId # f.loaderId THEN {} ELSE @]
              ELSE f
    IN  [f1 EXCEPT !.lifecycleEvents = @ \cup {name}]

\* mutant: init replaces the loader id and keeps the set
_onLifecycleEventKeepsEvents(f, loaderId, name) ==
    LET f1 == IF name = "init" THEN [f EXCEPT !.loaderId = loaderId] ELSE f
    IN  [f1 EXCEPT !.lifecycleEvents = @ \cup {name}]

_onLifecycleEvent(f, loaderId, name) ==
    LET f1 == IF name = "init"
              THEN [f EXCEPT !.loaderId = loaderId, !.lifecycleEvents = {}]
              ELSE f
    IN  [f1 EXCEPT !.lifecycleEvents = @ \cup {name}]

\* mutant: only load is recorded
_onLoadingStoppedLoadOnly(f) ==
    [f EXCEPT !.lifecycleEvents = @ \cup {"load"}]

_onLoadingStopped(f) ==
    [f EXCEPT !.lifecycleEvents = @ \cup {"DOMContentLoaded", "load"}]

_onLoadingStarted(f) == [f EXCEPT !.hasStartedLoading = TRUE]

\* mutant: the worlds are detached, the flag is left as it is
_detachKeepsFlag(f) ==
    [f EXCEPT !.worlds = [k \in WorldKinds |-> WorldDetach(f.worlds[k])]]

_detach(f) ==
    [f EXCEPT !.detached = TRUE,
              !.worlds = [k \in WorldKinds |-> WorldDetach(f.worlds[k])]]

----------------------------------------------------------------------------
(* LifecycleWatcher, from section 4.4 of the specification *)

\* a slot without a watcher
NoWatcher ==
    [live |-> FALSE, initialLoaderId |-> "", expected |-> {}, timeout |-> 0,
     elapsed |-> 0, sameDoc |-> FALSE, newDoc |-> FALSE, tot |-> "none",
     disposed |-> FALSE]

\* new LifecycleWatcher(frameManager, frame, waitUntil, timeout)
NewWatcher(f, waitUntil, timeout) ==
    [live |-> TRUE, initialLoaderId |-> f.loaderId, expected |-> waitUntil,
     timeout |-> timeout, elapsed |-> 0, sameDoc |-> FALSE, newDoc |-> FALSE,
     tot |-> "none", disposed |-> FALSE]

Subscribed(x) == x.live /\ ~x.disposed

\* the new-document condition, re-evaluated after every mutation of the frame
NewDocumentComplete(x, f) ==
    /\ f.loaderId # x.initialLoaderId
    /\ x.expected \subseteq f.lifecycleEvents

\* the watcher after the frame manager has applied an event to the frame;
\* kind is the event, f the frame after the event
WatcherOnEvent(x, kind, f) ==
    IF ~Subscribed(x) THEN x
    ELSE [x EXCEPT
            !.sameDoc = @ \/ (kind = "navigatedWithinDocument"
                                 /\ f.loaderId = x.initialLoaderId),
            !.newDoc = @ \/ NewDocumentComplete(x, f),
            !.tot = IF @ = "none" /\ kind = "detached"
                    THEN "termination" ELSE @]

\* one tick of the clock: the timer of a watcher with a non-zero timeout
\* fires when the timeout has elapsed
WatcherOnTick(x) ==
    IF ~Subscribed(x) THEN x
    ELSE LET e == IF x.elapsed < MaxElapsed THEN x.elapsed + 1 ELSE x.elapsed
         IN  [x EXCEPT
                !.elapsed = e,
                !.tot = IF @ = "none" /\ x.timeout # 0 /\ e >= x.timeout
                        THEN "timeout" ELSE @]

dispose(x) == [x EXCEPT !.disposed = TRUE]

\* watcher.navigationResponse(): the response of the new loader, or null
NavigationResponses(x, f) ==
    IF f.loaderId # x.initialLoaderId THEN {f.loaderId, "null"} ELSE {"null"}

----------------------------------------------------------------------------
(* The navigation driver: pure parts of goto and waitForNavigation *)

\* mutant: timeout || navigationTimeout()
ResolveTimeoutFalsy(opt) ==
    IF opt = Undefined \/ opt = 0 THEN DefaultNavigationTimeout ELSE opt

\* const {timeout = navigationTimeout()} = options: the default replaces
\* only a timeout that was left out
ResolveTimeout(opt) ==
    IF opt = Undefined THEN DefaultNavigationTimeout ELSE opt

\* const {waitUntil = ['load']} = options
ResolveWaitUntil(opt) ==
    IF opt = "undefined" THEN {"load"} ELSE {"load", "DOMContentLoaded"}

\* ensureNewDocumentNavigation = !!response.loaderId
EnsureNewDocumentNavigation(loaderId) == loaderId # ""

\* mutant: without the exemption of the non-OK-status error text
NavigateResultNoExemption(settle, errorText) ==
    CASE settle = "rejectedError" -> "commandError"
      [] settle = "rejectedOther" -> "thrown"
      [] errorText # "" -> "navigationError"
      [] OTHER -> "null"

\* mutant: the error text of the response is dropped
NavigateResultDropsErrorText(settle, errorText) ==
    CASE settle = "rejectedError" -> "commandError"
      [] settle = "rejectedOther" -> "thrown"
      [] OTHER -> "null"

\* what navigate() settles with.  settle is how client.send settled:
\* "result" (a response), "rejectedError" (rejected with an error-like
\* value) or "rejectedOther" (rejected with any other value)
NavigateResult(settle, errorText) ==
    CASE settle = "rejectedError" -> "commandError"
      [] settle = "rejectedOther" -> "thrown"
      [] errorText = HTTP_RESPONSE_CODE_FAILURE -> "null"
      [] errorText # "" -> "navigationError"
      [] OTHER -> "null"

\* mutant: the second race always waits for the new-document promise
SecondRacePromiseAlwaysNew(ensureNewDocumentNavigation) == "newDoc"

\* mutant: the second race always waits for the same-document promise
SecondRacePromiseAlwaysSame(ensureNewDocumentNavigation) == "sameDoc"

\* the navigation promise the second race of goto waits for
SecondRacePromise(ensureNewDocumentNavigation) ==
    IF ensureNewDocumentNavigation THEN "newDoc" ELSE "sameDoc"

\* mutant: the first await waits for navigate() alone
FirstRaceSettledNavigateOnly(c) == c.navResult # "pending"

\* Promise.race([navigate(...), watcher.timeoutOrTerminationPromise()])
\* has settled
FirstRaceSettled(c) == c.navResult # "pending" \/ c.watcher.tot # "none"

\* what the first race settles with: "null", an error, or "thrown" when the
\* race rejects
FirstRaceValue(c) ==
    IF c.navResult # "pending" THEN c.navResult ELSE c.watcher.tot

PromiseResolved(x, promise) ==
    IF promise = "newDoc" THEN x.newDoc ELSE x.sameDoc

\* mutant: the second race waits for the navigation promise alone
SecondRaceSettledNavigationOnly(c) ==
    PromiseResolved(c.watcher, SecondRacePromise(c.ensureNewDocumentNavigation))

\* Promise.race([watcher.timeoutOrTerminationPromise(), <navigation promise>])
SecondRaceSettled(c) ==
    \/ c.watcher.tot # "none"
    \/ PromiseResolved(c.watcher, SecondRacePromise(c.ensureNewDocumentNavigation))

SecondRaceValue(c) ==
    IF c.watcher.tot # "none" THEN c.watcher.tot ELSE "null"

\* mutant: the race leaves out the same-document promise
WaitRaceSettledNoSameDocument(c) ==
    c.watcher.tot # "none" \/ c.watcher.newDoc

\* waitForNavigation: Promise.race([timeoutOrTermination, sameDocument,
\* newDocument])
WaitRaceSettled(c) ==
    c.watcher.tot # "none" \/ c.watcher.sameDoc \/ c.watcher.newDoc

WaitRaceValue(c) ==
    IF c.watcher.tot # "none" THEN c.watcher.tot ELSE "null"

----------------------------------------------------------------------------
(* State *)

\* no goto call has been made
IdleGoto ==
    [pc |-> "idle", timeoutOpt |-> Undefined, sent |-> 0,
     navResult |-> "pending", errorText |-> "",
     ensureNewDocumentNavigation |-> FALSE,
     outcome |-> "none", response |-> "none", watcher |-> NoWatcher]

\* no waitForNavigation call has been made
IdleWait ==
    [pc |-> "idle", timeoutOpt |-> Undefined,
     outcome |-> "none", response |-> "none", watcher |-> NoWatcher]

\* a caller of executionContext() / evaluate that has not called yet
IdleCaller == [pc |-> "idle", kind |-> "MAIN_WORLD", orphaned |-> FALSE,
               releases |-> 0]

Callers == {"c1", "c2"}

\* no addScriptTag / addStyleTag call has been made
IdleTag ==
    [pc |-> "idle", method |-> "addScriptTag", url |-> NoName,
     path |-> NoName, content |-> NoName, fileReads |-> 0, evaluations |-> 0,
     outcome |-> "none"]

\* the step taken last, with the payload of the event
Step(kind, loaderId, name) ==
    [kind |-> kind, loaderId |-> loaderId, name |-> name,
     url |-> "", urlFragment |-> ""]

\* a step whose payload has a url
UrlStep(kind, name, url, urlFragment) ==
    [Step(kind, "", name) EXCEPT !.url = url, !.urlFragment = urlFragment]

Init ==
    /\ frame = NewFrame
    /\ g = IdleGoto
    /\ w = IdleWait
    /\ last = Step("init", "", "")
    /\ calls = 0
    /\ callers = [c \in Callers |-> IdleCaller]
    /\ tag = IdleTag

\* a continuation of goto or waitForNavigation is ready to run: the event
\* loop runs it before the next event, timer or call
MicrotaskPending ==
    \/ g.pc = "race1" /\ FirstRaceSettled(g)
    \/ g.pc = "race2" /\ SecondRaceSettled(g)
    \/ g.pc = "try"
    \/ w.pc = "race" /\ WaitRaceSettled(w)
    \/ w.pc = "try"

----------------------------------------------------------------------------
(* Events the frame manager routes to the frame, and the clock *)

\* the callers of executionContext() after an event: a world that gets a
\* context or is detached releases the callers suspended on it; the worlds
\* that updateClient replaces are no longer worlds of the frame
CallersOnEvent(kind, worldKind) ==
    [c \in Callers |->
        LET x == callers[c] IN
        IF x.pc # "suspended" THEN x
        ELSE IF kind = "updateClient" THEN [x EXCEPT !.orphaned = TRUE]
        ELSE IF x.orphaned THEN x
        ELSE IF kind = "detached"
             THEN [x EXCEPT !.pc = "failed", !.releases = @ + 1]
        ELSE IF kind = "contextCreated" /\ x.kind = worldKind
             THEN [x EXCEPT !.pc = "resolved", !.releases = @ + 1]
        ELSE x]

\* the frame manager applies an event to the frame and the subscribed
\* watchers re-evaluate
DispatchStep(step, f) ==
    /\ frame' = f
    /\ g' = [g EXCEPT !.watcher = WatcherOnEvent(@, step.kind, f)]
    /\ w' = [w EXCEPT !.watcher = WatcherOnEvent(@, step.kind, f)]
    /\ last' = step
    /\ callers' = CallersOnEvent(step.kind, step.loaderId)
    /\ UNCHANGED <<calls, tag>>

Dispatch(kind, loaderId, name, f) == DispatchStep(Step(kind, loaderId, name), f)

OnFrameNavigatedWithinDocument ==
    /\ ~MicrotaskPending
    /\ ~frame.detached
    /\ \E url \in Urls :
          DispatchStep(UrlStep("navigatedWithinDocument", "", url, ""),
                       _navigatedWithinDocument(frame, url))

OnLifecycleEvent ==
    /\ ~MicrotaskPending
    /\ ~frame.detached
    /\ \E loaderId \in Loaders, name \in LifecycleNames :
          Dispatch("lifecycle", loaderId, name,
                   _onLifecycleEvent(frame, loaderId, name))

OnFrameStoppedLoading ==
    /\ ~MicrotaskPending
    /\ ~frame.detached
    /\ Dispatch("stoppedLoading", "", "", _onLoadingStopped(frame))

OnFrameDetached ==
    /\ ~MicrotaskPending
    /\ ~frame.detached
    /\ Dispatch("detached", "", "", _detach(frame))

Tick ==
    /\ ~MicrotaskPending
    /\ \/ Subscribed(g.watcher) /\ g.watcher.elapsed < MaxElapsed
       \/ Subscribed(w.watcher) /\ w.watcher.elapsed < MaxElapsed
    /\ g' = [g EXCEPT !.watcher = WatcherOnTick(@)]
    /\ w' = [w EXCEPT !.watcher = WatcherOnTick(@)]
    /\ last' = Step("tick", "", "")
    /\ UNCHANGED <<callers, tag>>
    /\ UNCHANGED <<frame, calls>>

----------------------------------------------------------------------------
(* goto *)

\* mutant: the command is sent and no watcher has been constructed
GotoCallWithoutWatcher ==
    /\ ~MicrotaskPending
    /\ g.pc \in {"idle", "done"}
    /\ w.pc \in {"idle", "done"}
    /\ calls < MaxCalls
    /\ \E timeoutOpt \in TimeoutOptions :
          g' = [IdleGoto EXCEPT !.pc = "race1", !.timeoutOpt = timeoutOpt,
                                !.sent = @ + 1]
    /\ calls' = calls + 1
    /\ w' = IdleWait
    /\ last' = Step("gotoCall", "", "")
    /\ UNCHANGED <<frame, callers, tag>>

\* goto up to its first await: the watcher is constructed, then the
\* navigate command is sent.  The locals of an earlier, completed call are
\* gone.
GotoCall ==
    /\ ~MicrotaskPending
    /\ g.pc \in {"idle", "done"}
    /\ w.pc \in {"idle", "done"}
    /\ calls < MaxCalls
    /\ \E timeoutOpt \in TimeoutOptions, waitUntilOpt \in WaitUntilOptions :
          g' = [IdleGoto EXCEPT
                  !.pc = "race1",
                  !.timeoutOpt = timeoutOpt,
                  !.watcher = NewWatcher(frame, ResolveWaitUntil(waitUntilOpt),
                                         ResolveTimeout(timeoutOpt)),
                  !.sent = @ + 1]
    /\ calls' = calls + 1
    /\ w' = IdleWait
    /\ last' = Step("gotoCall", "", "")
    /\ UNCHANGED <<callers, tag>>
    /\ UNCHANGED frame

\* client.send('Page.navigate') settles and navigate() runs to its end
NavigateSettles ==
    /\ ~MicrotaskPending
    /\ g.pc # "idle"
    /\ g.navResult = "pending"
    /\ \E settle \in {"result", "rejectedError", "rejectedOther"},
          loaderId \in {""} \cup Loaders, errorText \in ErrorTexts :
          /\ settle # "result" => loaderId = "" /\ errorText = ""
          /\ g' = [g EXCEPT
                     !.ensureNewDocumentNavigation =
                         IF settle = "result"
                         THEN EnsureNewDocumentNavigation(loaderId) ELSE @,
                     !.errorText = errorText,
                     !.navResult = NavigateResult(settle, errorText)]
          /\ last' = Step(settle, loaderId, errorText)
    /\ UNCHANGED <<callers, tag>>
    /\ UNCHANGED <<frame, w, calls>>

\* try { throw error } finally { watcher.dispose() }
GotoThrows(c, error) ==
    [c EXCEPT !.pc = "done", !.outcome = error, !.watcher = dispose(@)]

\* an await outside the try statement throws
GotoRejects(c) == [c EXCEPT !.pc = "done", !.outcome = "thrown"]

\* mutant: the continuation takes the loader id of the frame at that time
\* as the baseline of the watcher
GotoFirstRaceRebasesWatcher ==
    /\ g.pc = "race1"
    /\ FirstRaceSettled(g)
    /\ LET v == FirstRaceValue(g)
       IN  g' = CASE v = "thrown" -> GotoRejects(g)
                  [] v = "null" ->
                       [g EXCEPT !.pc = "race2",
                                 !.watcher.initialLoaderId = frame.loaderId,
                                 !.watcher.newDoc = FALSE]
                  [] OTHER -> GotoThrows(g, v)
    /\ last' = Step("gotoFirstRace", "", "")
    /\ UNCHANGED <<frame, w, calls, callers, tag>>

\* the continuation after the first race
GotoFirstRace ==
    /\ g.pc = "race1"
    /\ FirstRaceSettled(g)
    /\ LET v == FirstRaceValue(g)
       IN  g' = CASE v = "thrown" -> GotoRejects(g)
                  [] v = "null" -> [g EXCEPT !.pc = "race2"]
                  [] OTHER -> GotoThrows(g, v)
    /\ last' = Step("gotoFirstRace", "", "")
    /\ UNCHANGED <<callers, tag>>
    /\ UNCHANGED <<frame, w, calls>>

\* the continuation after the second race
GotoSecondRace ==
    /\ g.pc = "race2"
    /\ SecondRaceSettled(g)
    /\ LET v == SecondRaceValue(g)
       IN  g' = IF v = "null" THEN [g EXCEPT !.pc = "try"]
                ELSE GotoThrows(g, v)
    /\ last' = Step("gotoSecondRace", "", "")
    /\ UNCHANGED <<callers, tag>>
    /\ UNCHANGED <<frame, w, calls>>

\* try { return await watcher.navigationResponse() } finally { dispose() }
GotoReturns ==
    /\ g.pc = "try"
    /\ \E r \in NavigationResponses(g.watcher, frame) :
          g' = [g EXCEPT !.pc = "done", !.outcome = "ok", !.response = r,
                         !.watcher = dispose(@)]
    /\ last' = Step("gotoReturns", "", "")
    /\ UNCHANGED <<callers, tag>>
    /\ UNCHANGED <<frame, w, calls>>

----------------------------------------------------------------------------
(* waitForNavigation *)

WaitForNavigationCall ==
    /\ ~MicrotaskPending
    /\ w.pc \in {"idle", "done"}
    /\ g.pc \in {"idle", "done"}
    /\ calls < MaxCalls
    /\ \E timeoutOpt \in TimeoutOptions, waitUntilOpt \in WaitUntilOptions :
          w' = [IdleWait EXCEPT
                  !.pc = "race",
                  !.timeoutOpt = timeoutOpt,
                  !.watcher = NewWatcher(frame, ResolveWaitUntil(waitUntilOpt),
                                         ResolveTimeout(timeoutOpt))]
    /\ calls' = calls + 1
    /\ g' = IdleGoto
    /\ last' = Step("waitForNavigationCall", "", "")
    /\ UNCHANGED <<callers, tag>>
    /\ UNCHANGED frame

\* mutant: the error is thrown before the try statement
WaitThrowsKeepsWatcher(c, error) ==
    [c EXCEPT !.pc = "done", !.outcome = error]

\* try { throw error } finally { watcher.dispose() }
WaitThrows(c, error) ==
    [c EXCEPT !.pc = "done", !.outcome = error, !.watcher = dispose(@)]

\* the continuation after the race
WaitRace ==
    /\ w.pc = "race"
    /\ WaitRaceSettled(w)
    /\ LET v == WaitRaceValue(w)
       IN  w' = IF v = "null" THEN [w EXCEPT !.pc = "try"]
                ELSE WaitThrows(w, v)
    /\ last' = Step("waitRace", "", "")
    /\ UNCHANGED <<callers, tag>>
    /\ UNCHANGED <<frame, g, calls>>

WaitReturns ==
    /\ w.pc = "try"
    /\ \E r \in NavigationResponses(w.watcher, frame) :
          w' = [w EXCEPT !.pc = "done", !.outcome = "ok", !.response = r,
                         !.watcher = dispose(@)]
    /\ last' = Step("waitReturns", "", "")
    /\ UNCHANGED <<callers, tag>>
    /\ UNCHANGED <<frame, g, calls>>

----------------------------------------------------------------------------
(* Specifications *)

Next ==
    \/ OnFrameNavigatedWithinDocument
    \/ OnLifecycleEvent
    \/ OnFrameStoppedLoading
    \/ OnFrameDetached
    \/ Tick
    \/ GotoCall
    \/ NavigateSettles
    \/ GotoFirstRace
    \/ GotoSecondRace
    \/ GotoReturns
    \/ WaitForNavigationCall
    \/ WaitRace
    \/ WaitReturns

Spec == Init /\ [][Next]_vars

\* the event loop drains the microtask queue: a continuation that is ready
\* to run does run
FairSpec ==
    /\ Spec
    /\ WF_vars(GotoFirstRace)
    /\ WF_vars(GotoSecondRace)
    /\ WF_vars(GotoReturns)
    /\ WF_vars(WaitRace)
    /\ WF_vars(WaitReturns)

----------------------------------------------------------------------------
(* The bookkeeping of the frame under every event routed to it *)

OnFrameNavigated ==
    /\ ~MicrotaskPending
    /\ ~frame.detached
    /\ \E payloadUrl \in NavigatedUrls, urlFragment \in UrlFragments,
          payloadName \in FrameNames :
          DispatchStep(UrlStep("navigated", payloadName, payloadUrl,
                               urlFragment),
                       _navigated(frame, payloadUrl, urlFragment, payloadName))

OnFrameStartedLoading ==
    /\ ~MicrotaskPending
    /\ ~frame.detached
    /\ Dispatch("startedLoading", "", "", _onLoadingStarted(frame))

\* the frame is served by another session from now on
UpdateClient ==
    /\ ~MicrotaskPending
    /\ ~frame.detached
    /\ \E client \in Sessions :
          Dispatch("updateClient", "", client, updateClient(frame, client))

\* the events that are addressed to a frame
FrameEvents ==
    {"navigated", "navigatedWithinDocument", "lifecycle", "startedLoading",
     "stoppedLoading", "updateClient", "contextCreated", "contextsCleared"}

\* mutant: a navigation event reaches the detached frame
DropEventNavigates ==
    /\ frame.detached
    /\ last.kind # "dropped"
    /\ \E payloadUrl \in NavigatedUrls, payloadName \in FrameNames :
          Dispatch("dropped", "", "navigated",
                   _navigated(frame, payloadUrl, "", payloadName))

\* an event addressed to the frame after its detachment: the frame is no
\* longer in the frame tree and the frame manager drops the event
DropEvent ==
    /\ frame.detached
    /\ last.kind # "dropped"
    /\ \E kind \in FrameEvents : last' = Step("dropped", "", kind)
    /\ UNCHANGED <<frame, g, w, calls, callers, tag>>

\* the frame after construction, served by any session
FrameInit ==
    /\ \E client \in Sessions :
          /\ frame = FrameConstructor(client)
          /\ last = Step("init", "", client)
    /\ g = IdleGoto
    /\ w = IdleWait
    /\ calls = 0
    /\ callers = [c \in Callers |-> IdleCaller]
    /\ tag = IdleTag

FrameNext ==
    \/ OnFrameNavigated
    \/ OnFrameNavigatedWithinDocument
    \/ OnLifecycleEvent
    \/ OnFrameStartedLoading
    \/ OnFrameStoppedLoading
    \/ OnFrameDetached
    \/ UpdateClient
    \/ DropEvent

FrameSpec == FrameInit /\ [][FrameNext]_vars

----------------------------------------------------------------------------
(* The isolated worlds of the frame and the callers waiting for a context *)

\* what a call of executionContext() on a world does with the caller
WorldExecutionContext(wd) ==
    IF wd.detached THEN "failed"
    ELSE IF wd.context THEN "resolved"
    ELSE "suspended"

\* executionContext(), evaluate() or evaluateHandle() of the frame, and the
\* methods that evaluate in the utility world: the call goes to the world
\* the frame has at the time of the call
ExecutionContextCall ==
    /\ ~MicrotaskPending
    /\ \E c \in Callers, kind \in WorldKinds :
          /\ callers[c].pc = "idle"
          /\ LET pc == WorldExecutionContext(frame.worlds[kind]) IN
             callers' = [callers EXCEPT ![c] =
                 [pc |-> pc, kind |-> kind, orphaned |-> FALSE,
                  releases |-> IF pc = "suspended" THEN 0 ELSE 1]]
          /\ last' = Step("executionContext", kind, c)
    /\ UNCHANGED <<frame, g, w, calls, tag>>

OnExecutionContextCreated ==
    /\ ~MicrotaskPending
    /\ ~frame.detached
    /\ \E kind \in WorldKinds :
          Dispatch("contextCreated", kind, "",
                   [frame EXCEPT !.worlds[kind] = setContext(@)])

\* the bulk notification clears the contexts of both worlds
OnExecutionContextsCleared ==
    /\ ~MicrotaskPending
    /\ ~frame.detached
    /\ Dispatch("contextsCleared", "", "",
                [frame EXCEPT !.worlds =
                    [k \in WorldKinds |-> clearContext(frame.worlds[k])]])

WorldNext ==
    \/ ExecutionContextCall
    \/ OnExecutionContextCreated
    \/ OnExecutionContextsCleared
    \/ UpdateClient
    \/ OnFrameNavigated
    \/ OnLifecycleEvent
    \/ OnFrameDetached
    \/ DropEvent

WorldSpec == FrameInit /\ [][WorldNext]_vars

----------------------------------------------------------------------------
(* addScriptTag and addStyleTag *)

TagMethods == {"addScriptTag", "addStyleTag"}

\* an option left out, set to the empty string, or set to a value
OptionValues == {NoName, "", "x"}

\* mutant: any option that is present counts
TruthyIfPresent(v) == v # NoName

\* !!v of an option
Truthy(v) == v \notin {NoName, ""}

\* let {content = ''} = options
DefaultContent(content) == IF content = NoName THEN "" ELSE content

\* +!!options.url + +!!path + +!!content
OptionsGiven(url, path, content) ==
    (IF Truthy(url) THEN 1 ELSE 0) + (IF Truthy(path) THEN 1 ELSE 0)
        + (IF Truthy(DefaultContent(content)) THEN 1 ELSE 0)

\* the call up to its first await: the check of the options, then the
\* import of fs for a path, or the evaluation in the utility world
AddTagCall ==
    /\ tag.pc \in {"idle", "done"}
    /\ \E method \in TagMethods, url \in OptionValues, path \in OptionValues,
          content \in OptionValues :
          /\ tag' = [pc |-> IF OptionsGiven(url, path, content) # 1 THEN "done"
                            ELSE IF Truthy(path) THEN "read" ELSE "evaluate",
                     method |-> method, url |-> url, path |-> path,
                     content |-> content, fileReads |-> 0, evaluations |-> 0,
                     outcome |-> IF OptionsGiven(url, path, content) # 1
                                 THEN "argumentError" ELSE "none"]
          /\ last' = Step("addTag", "", method)
    /\ UNCHANGED <<frame, g, w, calls, callers>>

\* fs is imported and the file is read; either can fail
TagReadFile ==
    /\ tag.pc = "read"
    /\ \/ tag' = [tag EXCEPT !.pc = "done", !.outcome = "notNodeLike"]
       \/ tag' = [tag EXCEPT !.pc = "done", !.fileReads = @ + 1,
                             !.outcome = "readError"]
       \/ tag' = [tag EXCEPT !.pc = "evaluate", !.fileReads = @ + 1]
    /\ last' = Step("readFile", "", tag.method)
    /\ UNCHANGED <<frame, g, w, calls, callers>>

\* the evaluation in the utility world that inserts the element
TagEvaluate ==
    /\ tag.pc = "evaluate"
    /\ \E outcome \in {"handle", "evaluationError"} :
          tag' = [tag EXCEPT !.pc = "done", !.evaluations = @ + 1,
                            !.outcome = outcome]
    /\ last' = Step("evaluateHandle", "PUPPETEER_WORLD", tag.method)
    /\ UNCHANGED <<frame, g, w, calls, callers>>

TagNext ==
    \/ AddTagCall
    \/ TagReadFile
    \/ TagEvaluate

TagSpec == Init /\ [][TagNext]_vars

----------------------------------------------------------------------------
(* Properties of goto *)

\* C1: every goto call that has returned or thrown has disposed the
\* watcher it constructed, whichever way the call ended.
GotoAlwaysDisposesWatcher == g.pc = "done" => g.watcher.disposed

\* goto is in its second race, after a navigate result without a loader
\* id, and neither the timeout nor a termination has occurred
SecondRaceWithoutLoader ==
    /\ g.pc = "race2"
    /\ ~g.ensureNewDocumentNavigation
    /\ g.watcher.tot = "none"

\* C2 as claimed: after a navigate result without a loader id, goto
\* continues to its successful end as soon as the same-document path or the
\* new-document path of the watcher has resolved.
GotoWithoutLoaderAcceptsEitherPath ==
    [][(SecondRaceWithoutLoader /\ (g.watcher.sameDoc \/ g.watcher.newDoc))
         => g'.pc = "try"]_vars

\* C2 as amended: after a navigate result without a loader id, goto
\* continues to its successful end as soon as the same-document path of the
\* watcher has resolved, and only then: the new-document path alone does
\* not complete the call.
GotoWithoutLoaderAwaitsSameDocument ==
    /\ [][(SecondRaceWithoutLoader /\ g.watcher.sameDoc) => g'.pc = "try"]_vars
    /\ [][(SecondRaceWithoutLoader /\ g'.pc = "try") => g.watcher.sameDoc]_vars
    /\ [][g.pc = "try" => (g'.pc = "done" /\ g'.outcome = "ok")]_vars

\* a goto that succeeded through the same-document path although the
\* new-document path had resolved as well
GotoSucceededWithoutLoader ==
    /\ g.pc = "done"
    /\ g.outcome = "ok"
    /\ g.navResult = "null"
    /\ ~g.ensureNewDocumentNavigation
    /\ g.watcher.sameDoc

\* goto has passed its second race without an error
GotoSucceeding == g.pc = "try" \/ (g.pc = "done" /\ g.outcome = "ok")

\* C3: when the navigate response carried a loader id, goto passes its
\* second race without an error only after the new-document path of the
\* watcher has resolved; the same-document path does not let it pass.
GotoWithLoaderRequiresNewDocument ==
    (GotoSucceeding /\ g.ensureNewDocumentNavigation) => g.watcher.newDoc

\* a goto with a loader id in the navigate response succeeded, and a
\* same-document navigation had been seen on the way
GotoSucceededWithLoader ==
    /\ g.pc = "done"
    /\ g.outcome = "ok"
    /\ g.ensureNewDocumentNavigation
    /\ g.watcher.sameDoc
    /\ g.watcher.newDoc

\* the frame has just been detached while goto is pending
DetachedDuringGoto ==
    /\ last.kind = "detached"
    /\ g.pc \in {"race1", "race2"}

\* C4: when the frame is detached while goto is pending, before or after
\* the navigate command is acknowledged, the next thing that happens is
\* that goto fails with the termination error, and it does happen.
GotoFailsWithTerminationOnDetach ==
    /\ [][DetachedDuringGoto
            => (g'.pc = "done" /\ g'.outcome = "termination")]_vars
    /\ (DetachedDuringGoto ~> (g.pc = "done" /\ g.outcome = "termination"))

\* goto failed with the termination error, the frame having been detached
\* before the navigate command settled and before any lifecycle event
GotoTerminatedBeforeAnyEvent ==
    /\ g.pc = "done"
    /\ g.outcome = "termination"
    /\ g.navResult = "pending"
    /\ frame.detached
    /\ frame.lifecycleEvents = {}

----------------------------------------------------------------------------
(* Properties of the lifecycle bookkeeping and of the watchers *)

\* the new-document path of watcher x resolves in this step
NewDocumentResolves(x, y) == x.live /\ y.live /\ ~x.newDoc /\ y.newDoc

\* the step just taken reported milestones of the frame
MilestoneReported(step) ==
    \/ step.kind = "lifecycle" /\ step.name # "init"
    \/ step.kind = "stoppedLoading"

\* C5: right after a lifecycle event init the frame has the loader id of
\* the event and its set holds no milestone recorded earlier; a watcher
\* stays pending on its new-document path through every step after which
\* a milestone it requested is missing from the set.
InitDiscardsEarlierMilestones ==
    /\ []((last.kind = "lifecycle" /\ last.name = "init")
            => (/\ frame.loaderId = last.loaderId
                /\ frame.lifecycleEvents \cap Milestones = {}))
    /\ [][\A c \in {<<g.watcher, g'.watcher>>, <<w.watcher, w'.watcher>>} :
            ~(c[2].expected \subseteq frame'.lifecycleEvents)
                => ~NewDocumentResolves(c[1], c[2])]_vars

\* init for L2 has just arrived while a watcher constructed under L1 and
\* requesting both milestones is pending
WatcherPendingAfterSecondInit ==
    /\ last = Step("lifecycle", "L2", "init")
    /\ w.pc = "race"
    /\ w.watcher.initialLoaderId = "L1"
    /\ w.watcher.expected = Milestones
    /\ ~w.watcher.newDoc

\* C6 as claimed: the new-document path of a watcher resolves only when
\* the loader id of the frame differs from the baseline of the watcher and
\* every requested milestone is in the set, and never on a lifecycle event
\* that carries another loader id than the current one of the frame.
NewDocumentCountsCurrentLoaderOnly ==
    [][\A c \in {<<g.watcher, g'.watcher>>, <<w.watcher, w'.watcher>>} :
         NewDocumentResolves(c[1], c[2])
            => (/\ frame'.loaderId # c[2].initialLoaderId
                /\ c[2].expected \subseteq frame'.lifecycleEvents
                /\ ~(last'.kind = "lifecycle"
                       /\ last'.loaderId # frame'.loaderId))]_vars

\* C6 as amended: the new-document path of a watcher resolves only when
\* the loader id of the frame differs from the baseline of the watcher and
\* every requested milestone is in the set, on a step that reports a
\* milestone after the latest init; the loader id such a report carries is
\* not compared with the current one of the frame.
NewDocumentRequiresNewLoaderAndMilestones ==
    [][\A c \in {<<g.watcher, g'.watcher>>, <<w.watcher, w'.watcher>>} :
         NewDocumentResolves(c[1], c[2])
            => (/\ frame'.loaderId # c[2].initialLoaderId
                /\ c[2].expected \subseteq frame'.lifecycleEvents
                /\ MilestoneReported(last'))]_vars

\* the new-document path of a pending waitForNavigation has just resolved
\* on a lifecycle event that carries a superseded loader id
NewDocumentResolvedByOtherLoader ==
    /\ w.pc = "race"
    /\ w.watcher.newDoc
    /\ last.kind = "lifecycle"
    /\ last.loaderId # frame.loaderId

----------------------------------------------------------------------------
(* Properties of waitForNavigation *)

\* a same-document navigation has just been applied to the frame while
\* waitForNavigation is pending and the loader id is the one of the call
SameDocumentWhileWaiting ==
    /\ last.kind = "navigatedWithinDocument"
    /\ w.pc = "race"
    /\ frame.loaderId = w.watcher.initialLoaderId

\* C7: a same-document navigation of the frame while waitForNavigation is
\* pending, the loader id being the one of the call, is followed at once by
\* the continuation of the call, which returns null and does not throw.
WaitResolvesNullOnSameDocument ==
    /\ [][SameDocumentWhileWaiting
            => (w'.pc = "try" /\ w'.watcher.sameDoc)]_vars
    /\ [][(w.pc = "try" /\ w.watcher.sameDoc)
            => (w'.pc = "done" /\ w'.outcome = "ok"
                /\ w'.response = "null")]_vars
    /\ (SameDocumentWhileWaiting
          ~> (w.pc = "done" /\ w.outcome = "ok" /\ w.response = "null"))

\* waitForNavigation returned null after a same-document navigation
WaitReturnedNullOnSameDocument ==
    /\ w.pc = "done"
    /\ w.outcome = "ok"
    /\ w.response = "null"
    /\ w.watcher.sameDoc
    /\ ~w.watcher.newDoc

----------------------------------------------------------------------------
(* Properties of the navigate command and of the timeout *)

\* C8: a navigate response with the non-OK-status error text makes
\* navigate() settle with null; goto then enters its second race as it does
\* after a response without an error text, and it never fails with a
\* navigation error on that account.
NonOkStatusIsNotAnError ==
    /\ [](g.errorText = HTTP_RESPONSE_CODE_FAILURE
            => (/\ g.navResult = "null"
                /\ g.outcome \in {"none", "ok", "timeout", "termination"}))
    /\ [][(g.pc = "race1" /\ g.navResult = "null"
            /\ g.errorText \in {"", HTTP_RESPONSE_CODE_FAILURE})
            => g'.pc = "race2"]_vars

\* goto returned after a navigate response with the non-OK-status error
GotoSucceededAfterNonOkStatus ==
    /\ g.pc = "done"
    /\ g.outcome = "ok"
    /\ g.errorText = HTTP_RESPONSE_CODE_FAILURE

\* the ways navigate() reports a failed command
NavigateFailures == {"navigationError", "commandError", "thrown"}

\* C9: a goto call sends the navigate command once; a response with any
\* other error text, or a rejected command, makes navigate() settle with
\* that failure, and the next thing that happens is that goto fails with
\* it: goto never waits in its second race after a failed command.
NavigateFailureFailsGoto ==
    /\ [](g.pc # "idle" => g.sent = 1)
    /\ [](g.pc \in {"race2", "try"} => g.navResult = "null")
    /\ []((last.kind = "result"
             /\ last.name \notin {"", HTTP_RESPONSE_CODE_FAILURE})
            => g.navResult = "navigationError")
    /\ [](last.kind = "rejectedError" => g.navResult = "commandError")
    /\ [](last.kind = "rejectedOther" => g.navResult = "thrown")
    /\ [][(g.pc = "race1" /\ g.navResult \in NavigateFailures)
            => (/\ g'.pc = "done"
                /\ g'.outcome = g.navResult
                /\ g'.sent = g.sent)]_vars

\* goto failed with the error text of the navigate response
GotoFailedWithNavigationError ==
    /\ g.pc = "done"
    /\ g.outcome = "navigationError"
    /\ g.errorText = "net::ERR_ABORTED"
    /\ g.sent = 1

\* C10: a goto or waitForNavigation called with timeout 0 hands 0 to its
\* watcher and never fails with the timeout error.
ZeroTimeoutNeverTimesOut ==
    /\ (g.pc # "idle" /\ g.timeoutOpt = 0)
          => (/\ g.watcher.timeout = 0
              /\ g.watcher.tot # "timeout"
              /\ g.outcome # "timeout")
    /\ (w.pc # "idle" /\ w.timeoutOpt = 0)
          => (/\ w.watcher.timeout = 0
              /\ w.watcher.tot # "timeout"
              /\ w.outcome # "timeout")

\* a goto with timeout 0 is still pending after more time than the
\* default navigation timeout
ZeroTimeoutPendingPastDefault ==
    /\ g.pc = "race2"
    /\ g.timeoutOpt = 0
    /\ g.watcher.elapsed > DefaultNavigationTimeout
    /\ g.watcher.tot = "none"

----------------------------------------------------------------------------
(* Properties of the deadline and of the disposal in waitForNavigation *)

GotoPending == g.pc \in {"race1", "race2"}

WaitPending == w.pc = "race"

\* the deadline of watcher x has elapsed
DeadlineElapsed(x) == x.timeout # 0 /\ x.elapsed >= x.timeout

\* what lets a goto call resolve: navigate() settled without an error and
\* the navigation promise goto then waits for has resolved
GotoResolutionMet(c) ==
    /\ c.navResult = "null"
    /\ \/ c.ensureNewDocumentNavigation /\ c.watcher.newDoc
       \/ ~c.ensureNewDocumentNavigation /\ c.watcher.sameDoc

\* what lets a waitForNavigation call resolve
WaitResolutionMet(c) == c.watcher.sameDoc \/ c.watcher.newDoc

\* C11: the deadline D of a call is the timeout option, or the default one
\* when the option is left out.  When a tick makes D elapse for a pending
\* call with D # 0, the next thing that happens is that the call fails with
\* the timeout error, and it does happen; a call fails with the timeout
\* error only when D has elapsed and its resolution condition is not met.
DeadlineFailsPendingCall ==
    /\ [](g.pc # "idle"
            => g.watcher.timeout = IF g.timeoutOpt = Undefined
                                   THEN DefaultNavigationTimeout
                                   ELSE g.timeoutOpt)
    /\ [](w.pc # "idle"
            => w.watcher.timeout = IF w.timeoutOpt = Undefined
                                   THEN DefaultNavigationTimeout
                                   ELSE w.timeoutOpt)
    /\ [][(GotoPending /\ DeadlineElapsed(g.watcher))
            => (g'.pc = "done" /\ g'.outcome = "timeout")]_vars
    /\ [][(WaitPending /\ DeadlineElapsed(w.watcher))
            => (w'.pc = "done" /\ w'.outcome = "timeout")]_vars
    /\ [][(g.pc # "done" /\ g'.pc = "done" /\ g'.outcome = "timeout")
            => (DeadlineElapsed(g.watcher) /\ ~GotoResolutionMet(g))]_vars
    /\ [][(w.pc # "done" /\ w'.pc = "done" /\ w'.outcome = "timeout")
            => (DeadlineElapsed(w.watcher) /\ ~WaitResolutionMet(w))]_vars
    /\ ((GotoPending /\ DeadlineElapsed(g.watcher))
          ~> (g.pc = "done" /\ g.outcome = "timeout"))
    /\ ((WaitPending /\ DeadlineElapsed(w.watcher))
          ~> (w.pc = "done" /\ w.outcome = "timeout"))

\* a goto with an explicit deadline of one tick failed with the timeout
\* error after the navigate command had settled
GotoTimedOutAtDeadline ==
    /\ g.pc = "done"
    /\ g.outcome = "timeout"
    /\ g.timeoutOpt = 1
    /\ g.watcher.elapsed = 1
    /\ g.navResult = "null"

\* C12: every waitForNavigation call that has returned or thrown has
\* disposed the watcher it constructed.
WaitAlwaysDisposesWatcher ==
    /\ w.pc = "done" => w.watcher.disposed
    /\ w.pc \in {"race", "try"} => Subscribed(w.watcher)

\* waitForNavigation failed with the termination error
WaitTerminatedAndDisposed ==
    /\ w.pc = "done"
    /\ w.outcome = "termination"
    /\ w.watcher.disposed

----------------------------------------------------------------------------
(* Properties of the frame under the events routed to it *)

\* C14: isDetached() is false after construction and becomes true by the
\* detachment of the frame only; once true it is true after every later
\* step.
DetachedFlagIsMonotonic ==
    /\ [](last.kind = "init" => ~isDetached(frame))
    /\ [](last.kind = "detached" => isDetached(frame))
    /\ [][(~isDetached(frame) /\ isDetached(frame'))
            => last'.kind = "detached"]_vars
    /\ [][isDetached(frame) => isDetached(frame')]_vars

\* an event has been addressed to the frame after its detachment
EventAfterDetachment ==
    /\ isDetached(frame)
    /\ last.kind = "dropped"
    /\ frame.hasStartedLoading

OOPFrameFollowsLastBinding ==
    /\ [](last.kind \in {"init", "updateClient"}
            => (isOOPFrame(frame) <=> last.name # FrameManagerClient))
    /\ [][last'.kind # "updateClient"
            => isOOPFrame(frame') = isOOPFrame(frame)]_vars

\* the frame has been bound to a dedicated session and events have
\* followed
OOPFrameAfterRebinding ==
    /\ isOOPFrame(frame)
    /\ last.kind = "lifecycle"
    /\ frame.url # ""

----------------------------------------------------------------------------
(* Properties of the isolated worlds *)

Suspended(c) == callers[c].pc = "suspended"

\* C13: once the frame is detached, no world of the frame has a live
\* context, no caller of executionContext() is left pending, and a call
\* made from then on fails.
DetachedFrameFailsEveryCaller ==
    isDetached(frame)
        => /\ \A k \in WorldKinds : ~frame.worlds[k].context
           /\ \A c \in Callers : ~Suspended(c)
           /\ last.kind = "executionContext"
                  => callers[last.name].pc = "failed"

\* C16: a caller is released at most once, and no caller is suspended once
\* the frame has detached or right after a context has arrived for the
\* world it waits for.
SuspendedCallerReleasedExactlyOnce ==
    /\ \A c \in Callers : callers[c].releases <= 1
    /\ \A c \in Callers :
          callers[c].pc \in {"resolved", "failed"} <=> callers[c].releases = 1
    /\ isDetached(frame) => \A c \in Callers : ~Suspended(c)
    /\ last.kind = "contextCreated"
          => \A c \in Callers : ~(Suspended(c) /\ callers[c].kind = last.loaderId)

\* C17: an evaluate in the page world suspends exactly if that world has
\* no live context at the time of the call; after a context-created
\* notification for the page world no evaluate is suspended, and a call
\* right after contexts-cleared suspends.
EvaluateWaitsForContext ==
    /\ (last.kind = "executionContext" /\ last.loaderId = "MAIN_WORLD"
           /\ ~isDetached(frame))
          => (Suspended(last.name) <=> ~frame.worlds["MAIN_WORLD"].context)
    /\ (last.kind = "contextCreated" /\ last.loaderId = "MAIN_WORLD")
          => \A c \in Callers :
                callers[c].kind = "MAIN_WORLD" => ~Suspended(c)
    /\ last.kind = "contextsCleared" => ~frame.worlds["MAIN_WORLD"].context

----------------------------------------------------------------------------
(* Properties of addScriptTag and addStyleTag *)

TagOptions == {"url", "path", "content"}

\* C18: a call fails with the argument error exactly if the number of
\* options that are present among url, path and content is not one, and
\* then no file has been read and nothing has been evaluated.
ArgumentErrorUnlessOneOptionPresent ==
    tag.pc # "idle"
        => /\ tag.outcome = "argumentError"
                <=> Cardinality({o \in TagOptions : tag[o] # NoName}) # 1
           /\ tag.outcome = "argumentError"
                => (tag.fileReads = 0 /\ tag.evaluations = 0)

\* C18 as the code has it: a call fails with the argument error exactly if
\* the number of options with a non-empty value among url, path and content
\* is not one, and then the call is over without a file read or an
\* evaluation.
ArgumentErrorUnlessOneOptionNonEmpty ==
    tag.pc # "idle"
        => /\ tag.outcome = "argumentError"
                <=> Cardinality({o \in TagOptions :
                                    tag[o] \notin {NoName, ""}}) # 1
           /\ tag.outcome = "argumentError"
                => (tag.pc = "done" /\ tag.fileReads = 0
                                    /\ tag.evaluations = 0)

\* addStyleTag has been called with an empty content and nothing else
EmptyContentIsArgumentError ==
    /\ tag.method = "addStyleTag"
    /\ tag.url = NoName /\ tag.path = NoName /\ tag.content = ""
    /\ tag.outcome = "argumentError"

----------------------------------------------------------------------------
(* Effect of each event on the bookkeeping of the frame *)

\* C22: a lifecycle event named init sets the loader id of the frame to
\* the one of the event and leaves the set of lifecycle events empty; an
\* event with another name has its name in the set afterwards.
InitLeavesLifecycleEventsEmpty ==
    [][last'.kind = "lifecycle"
         => IF last'.name = "init"
            THEN /\ frame'.loaderId = last'.loaderId
                 /\ frame'.lifecycleEvents = {}
            ELSE last'.name \in frame'.lifecycleEvents]_vars

\* C22 as the code has it: a lifecycle event named init sets the loader id
\* of the frame to the one of the event and leaves init as the only member
\* of the set of lifecycle events; an event with another name has its name
\* in the set afterwards.
InitLeavesOnlyInit ==
    [][last'.kind = "lifecycle"
         => IF last'.name = "init"
            THEN /\ frame'.loaderId = last'.loaderId
                 /\ frame'.lifecycleEvents = {"init"}
            ELSE last'.name \in frame'.lifecycleEvents]_vars

\* an init has arrived at a frame that has started loading
InitAfterLoadingStarted ==
    /\ last = Step("lifecycle", "L1", "init")
    /\ frame.lifecycleEvents = {"init"}
    /\ frame.loaderId = "L1"
    /\ frame.hasStartedLoading

\* C23: a lifecycle event with another name than init changes nothing of
\* the frame but the set of lifecycle events, which gains the name of the
\* event, whatever loader id the event carries.
OtherNamesAreAddedWhateverTheLoader ==
    [][(last'.kind = "lifecycle" /\ last'.name # "init")
         => frame' = [frame EXCEPT !.lifecycleEvents = @ \cup {last'.name}]]_vars

\* a milestone of another loader than the current one has been recorded
\* next to what the set had
MilestoneOfOtherLoaderRecorded ==
    /\ last = Step("lifecycle", "L2", "load")
    /\ frame.loaderId = "L1"
    /\ frame.lifecycleEvents = {"init", "DOMContentLoaded", "load"}

\* C24: a frame-navigated event changes nothing of the frame but the url,
\* set to the url of the payload followed by its fragment, and the name; a
\* same-document navigation changes nothing but the url.
UrlEventsKeepBookkeeping ==
    [][/\ last'.kind = "navigated"
           => frame' = [frame EXCEPT !.url = last'.url \o last'.urlFragment,
                                     !.name = last'.name]
       /\ last'.kind = "navigatedWithinDocument"
           => frame' = [frame EXCEPT !.url = last'.url]]_vars

\* a frame in the middle of a load has navigated to a url with a fragment
NavigatedWithFragmentWhileLoading ==
    /\ last.kind = "navigated"
    /\ last.urlFragment = "#h"
    /\ frame.url = "u#h"
    /\ frame.name = "n"
    /\ frame.loaderId = "L1"
    /\ frame.lifecycleEvents = {"init", "DOMContentLoaded"}
    /\ frame.hasStartedLoading

\* C25: a loading-stopped notification changes nothing of the frame but
\* the set of lifecycle events, which gains DOMContentLoaded and load.
LoadingStoppedAddsBothMilestones ==
    [][last'.kind = "stoppedLoading"
         => frame' = [frame EXCEPT !.lifecycleEvents =
                          @ \cup {"DOMContentLoaded", "load"}]]_vars

\* loading has stopped at a navigated frame whose set held init only
LoadingStoppedAfterInit ==
    /\ last.kind = "stoppedLoading"
    /\ frame.lifecycleEvents = {"init", "DOMContentLoaded", "load"}
    /\ frame.loaderId = "L2"
    /\ frame.url = "u"
    /\ frame.hasStartedLoading

----------------------------------------------------------------------------
(* Order of the acknowledgment of the command and the events it triggers *)

\* the command has been acknowledged with a loader id, the watcher has seen
\* the init of a new loader and the milestones, and neither the timeout nor
\* a termination has occurred
AcknowledgedAndLoaded ==
    /\ g.pc \in {"race1", "race2", "try"}
    /\ g.navResult = "null"
    /\ g.ensureNewDocumentNavigation
    /\ g.watcher.newDoc
    /\ g.watcher.tot = "none"

\* C21: once the acknowledgment with a loader id and the lifecycle events
\* of the new document have both been delivered, in whichever order, goto
\* resolves with the response of the navigation; it does not resolve
\* before both have been delivered.
GotoOutcomeIndependentOfOrder ==
    /\ AcknowledgedAndLoaded
          ~> (/\ g.pc = "done"
              /\ g.outcome = "ok"
              /\ g.response \in NavigationResponses(g.watcher, frame))
    /\ []((g.pc = "done" /\ g.outcome = "ok"
             /\ g.ensureNewDocumentNavigation)
            => (g.navResult = "null" /\ g.watcher.newDoc))

\* the acknowledgment arrives after the init of the new loader and the
\* milestones
AcknowledgedAfterLifecycleEvents ==
    /\ last.kind = "result"
    /\ last.loaderId = frame.loaderId
    /\ g.watcher.initialLoaderId # frame.loaderId
    /\ g.pc = "race1"
    /\ AcknowledgedAndLoaded

\* C26: the step that sends the navigate command leaves a subscribed
\* watcher whose baseline is the loader id the frame had before the command
\* was sent, and every event processed while the call is pending finds the
\* watcher subscribed.
WatcherSubscribedBeforeNavigate ==
    /\ [][last'.kind = "gotoCall"
            => (/\ g'.sent = 1
                /\ g'.navResult = "pending"
                /\ Subscribed(g'.watcher)
                /\ g'.watcher.initialLoaderId = frame.loaderId)]_vars
    /\ [][(g.sent = 1 /\ g.pc \in {"race1", "race2", "try"}
             /\ last'.kind \in FrameEvents \cup {"detached"})
            => Subscribed(g.watcher)]_vars

\* the init of the new loader is processed before the acknowledgment of
\* the command, by a watcher with the earlier loader id as baseline
InitProcessedBeforeAcknowledgment ==
    /\ last = Step("lifecycle", "L2", "init")
    /\ g.pc = "race1"
    /\ g.navResult = "pending"
    /\ Subscribed(g.watcher)
    /\ g.watcher.initialLoaderId = "L1"
    /\ frame.loaderId = "L2"

====
